---- MODULE Spec2Model ----
(***************************************************************************)
(* A model of redis_bullmq_explorer's repository                           *)
(* (infrastructure_redis_bullmq.py: RedisBullMQRepository) over one queue  *)
(* of one key prefix.                                                      *)
(*                                                                         *)
(* Python strings whose characters the code looks at (job ids, search      *)
(* terms, hash field values) are sequences of one-character strings, so    *)
(* that str.isdigit, int(), str.lower, the substring test and the string   *)
(* comparison are computed and not assumed.  The five state names are only *)
(* compared for equality, sorted and joined, and are TLA+ strings.         *)
(*                                                                         *)
(* The display fields get_jobs derives for the returned page (name,        *)
(* data_preview, formatted timestamp) cannot raise and are not part of the *)
(* model: a Job is its id and its state string.                            *)
(***************************************************************************)
EXTENDS Integers, Sequences, FiniteSets, TLC

VARIABLES coll, hashes, logs, last, del, r, get, scan, ui, keyspace

vars == <<coll, hashes, logs, last, del, r, get, scan, ui, keyspace>>

(***************************************************************************)
(* Bounds of the model.                                                    *)
(***************************************************************************)
MaxPage == 3

MaxMoves == 1

PageSizes == {1, 2}

\* The SCAN calls of one get_queues.
MaxScans == 3

\* The keys of one SCAN reply.
MaxBatch == 2

\* The Workers the window starts.
MaxWorkers == 4

\* The jobs of one page of the window: self.page_size, which is 20, scaled
\* so that the stores of this module fill more than one page.
ViewPageSize == 2

(***************************************************************************)
(* Strings.                                                                *)
(***************************************************************************)

\* Python's None, as returned by HGET for a missing key or field: a value
\* that is no character sequence (its one element is not one character).
None == <<"None">>

\* The characters that occur in the model, in code point order.
CodePoints == <<"-", "0", "1", "2", "3", "4", "5", "6", "7", "8", "9",
                "A", "B", "a", "b", "x", "z">>

Ord(ch) == CHOOSE i \in 1..Len(CodePoints) : CodePoints[i] = ch

DigitChars == {"0", "1", "2", "3", "4", "5", "6", "7", "8", "9"}

DigitVal(ch) == Ord(ch) - Ord("0")

Range(seq) == {seq[i] : i \in 1..Len(seq)}

\* str.isdigit(): non-empty and every character a digit.
IsDigit(str) == Len(str) > 0 /\ \A i \in 1..Len(str) : str[i] \in DigitChars

\* int(str) of an all-digit string.
RECURSIVE IntOfDigits(_)
IntOfDigits(str) ==
    IF Len(str) = 0 THEN 0
    ELSE 10 * IntOfDigits(SubSeq(str, 1, Len(str) - 1)) + DigitVal(str[Len(str)])

\* int(str) of any string: [ok, v]; ok is FALSE where Python raises ValueError.
ParseInt(str) ==
    IF IsDigit(str) THEN [ok |-> TRUE, v |-> IntOfDigits(str)]
    ELSE IF Len(str) > 1 /\ str[1] = "-" /\ IsDigit(Tail(str))
         THEN [ok |-> TRUE, v |-> 0 - IntOfDigits(Tail(str))]
         ELSE [ok |-> FALSE, v |-> 0]

LowerChar(ch) == CASE ch = "A" -> "a" [] ch = "B" -> "b" [] OTHER -> ch

\* str.lower()
Lower(str) == [i \in 1..Len(str) |-> LowerChar(str[i])]

\* needle in hay (Python's substring test)
Contains(hay, needle) ==
    \E i \in 0..(Len(hay) - Len(needle)) : SubSeq(hay, i + 1, i + Len(needle)) = needle

\* a < b for two Python strings: lexicographic by code point.
RECURSIVE StrLess(_, _)
StrLess(a, b) ==
    IF Len(b) = 0 THEN FALSE
    ELSE IF Len(a) = 0 THEN TRUE
    ELSE IF a[1] = b[1] THEN StrLess(Tail(a), Tail(b))
    ELSE Ord(a[1]) < Ord(b[1])

\* sep.join(names) for a sequence of TLA+ strings
RECURSIVE Join(_, _)
Join(sep, names) ==
    IF Len(names) = 0 THEN ""
    ELSE IF Len(names) = 1 THEN names[1]
    ELSE names[1] \o sep \o Join(sep, Tail(names))

(***************************************************************************)
(* The store: the five state keys of the queue, the job hashes and the     *)
(* jobs' logs keys.                                                        *)
(***************************************************************************)

\* state_keys, in the dict's insertion order (the order get_jobs reads them in).
StateKeys == <<"wait", "active", "delayed", "completed", "failed">>

States == Range(StateKeys)

\* sorted() of state names: the five names in alphabetical order.
AlphabeticalStates == <<"active", "completed", "delayed", "failed", "wait">>

Absent == [t |-> "none", m |-> <<>>]

\* A key's value after a removal: Redis deletes a list, sorted set or set
\* that became empty.
Normalize(c) == IF c.m = <<>> /\ c.t \in {"list", "zset", "set"} THEN Absent ELSE c

NoHash == [name |-> None, data |-> None, timestamp |-> None]

\* HGET key field
HGet(h, jid, field) == h[jid][field]

\* _collect_ids_from_key: TYPE, then LRANGE 0 -1 / ZRANGE 0 -1 / SMEMBERS.
\* A sorted set's members come in score order and a set's in the reply's
\* order: c.m holds them in that order.
CollectIdsFromKey(c) ==
    IF c.t = "list" THEN c.m
    ELSE IF c.t = "zset" THEN c.m
    ELSE IF c.t = "set" THEN c.m
    ELSE <<>>

(***************************************************************************)
(* get_jobs.                                                               *)
(***************************************************************************)

\* Counts with each collection's ids deduplicated before counting.
CountsDeduplicated(c) ==
    [s \in States |-> Cardinality(Range(CollectIdsFromKey(c[s])))]

\* counts: per state, len() of the ids read from its key.
Counts(c) == [s \in States |-> Len(CollectIdsFromKey(c[s]))]

\* jobs_map, a dict: its entries [id, states] in insertion order.
HasKey(map, jid) == \E i \in 1..Len(map) : map[i].id = jid

\* jobs_map[jid]
StatesOf(map, jid) == (CHOOSE e \in Range(map) : e.id = jid).states

\* One iteration of "for jid in ids": create the entry if the id is new,
\* add the state to the id's set.
AddState(map, state, jid) ==
    LET m1 == IF HasKey(map, jid) THEN map
              ELSE Append(map, [id |-> jid, states |-> {}])
    IN  [i \in 1..Len(m1) |->
            IF m1[i].id = jid THEN [m1[i] EXCEPT !.states = @ \cup {state}]
            ELSE m1[i]]

RECURSIVE AddIds(_, _, _)
AddIds(map, state, ids) ==
    IF Len(ids) = 0 THEN map
    ELSE AddIds(AddState(map, state, Head(ids)), state, Tail(ids))

RECURSIVE CollectStates(_, _, _)
CollectStates(map, c, keys) ==
    IF Len(keys) = 0 THEN map
    ELSE CollectStates(AddIds(map, Head(keys), CollectIdsFromKey(c[Head(keys)])),
                       c, Tail(keys))

JobsMap(c) == CollectStates(<<>>, c, StateKeys)

\* all_ids = list(jobs_map.keys())
AllIds(map) == [i \in 1..Len(map) |-> map[i].id]

\* IdsToSearch without the pre-filter: the search runs over every id.
IdsToSearchUnfiltered(map, status_filter) == AllIds(map)

\* ids_to_search: the pre-filter by status
IdsToSearch(map, status_filter) ==
    IF status_filter # ""
    THEN SelectSeq(AllIds(map), LAMBDA jid : status_filter \in StatesOf(map, jid))
    ELSE AllIds(map)

\* data_str = (data_raw or "")
OrEmpty(raw) == IF raw = None THEN <<>> ELSE raw

\* SearchMatches without the lower-casing.
SearchMatchesCaseSensitive(h, jid, search_term) ==
    \/ Contains(jid, search_term)
    \/ Contains(OrEmpty(HGet(h, jid, "data")), search_term)

\* search_lower in jid.lower() or search_lower in data_str.lower()
SearchMatches(h, jid, search_term) ==
    \/ Contains(Lower(jid), Lower(search_term))
    \/ Contains(Lower(OrEmpty(HGet(h, jid, "data"))), Lower(search_term))

\* filtered_ids before the sort
FilteredIds(h, ids_to_search, search_term) ==
    IF Len(search_term) = 0 THEN ids_to_search
    ELSE SelectSeq(ids_to_search, LAMBDA jid : SearchMatches(h, jid, search_term))

\* DataReads without the test of search_term: the data field of every
\* pre-filtered id is read on every call.
DataReadsAlways(ids_to_search, search_term) == ids_to_search

\* The ids whose data field the search pipeline reads.
DataReads(ids_to_search, search_term) ==
    IF Len(search_term) = 0 THEN <<>> ELSE ids_to_search

\* ts_val: 0 unless the raw value is truthy and int() accepts it.
TsVal(ts_raw) ==
    IF ts_raw = None \/ Len(ts_raw) = 0 THEN 0
    ELSE IF ParseInt(ts_raw).ok THEN ParseInt(ts_raw).v ELSE 0

\* Sort keys: a Python int or a Python str.
IntKey(n) == [isint |-> TRUE, n |-> n, s |-> <<>>]

StrKey(str) == [isint |-> FALSE, n |-> 0, s |-> str]

\* key=lambda x: x[1] on (id, timestamp_int)
TimestampKey(h, jid) == IntKey(TsVal(HGet(h, jid, "timestamp")))

\* key=lambda x: int(x) if x.isdigit() else x
IdKey(jid) == IF IsDigit(jid) THEN IntKey(IntOfDigits(jid)) ELSE StrKey(jid)

\* a < b on two keys of one type
KeyLess(a, b) == IF a.isint THEN a.n < b.n ELSE StrLess(a.s, b.s)

\* Comparing an int with a str raises TypeError; list.sort compares every
\* element with another one, so it raises exactly when both types occur.
SortRaises(items) ==
    \E i, j \in 1..Len(items) : items[i].key.isint # items[j].key.isint

\* list.sort is stable, also with reverse=True: an item goes before the
\* first item that must follow it, and after every item of an equal key.
InsertSorted(acc, x, reverse) ==
    LET follows(e) == IF reverse THEN KeyLess(e.key, x.key) ELSE KeyLess(x.key, e.key)
        idx == {i \in 1..Len(acc) : follows(acc[i])}
        p == IF idx = {} THEN Len(acc) + 1
             ELSE CHOOSE i \in idx : \A k \in idx : i <= k
    IN  SubSeq(acc, 1, p - 1) \o <<x>> \o SubSeq(acc, p, Len(acc))

RECURSIVE SortInto(_, _, _)
SortInto(acc, items, reverse) ==
    IF Len(items) = 0 THEN acc
    ELSE SortInto(InsertSorted(acc, Head(items), reverse), Tail(items), reverse)

\* ListSort that drops reverse.
ListSortAscending(items, reverse) == SortInto(<<>>, items, FALSE)

ListSort(items, reverse) == SortInto(<<>>, items, reverse)

\* Step 3: [raised, ids]: the sorted filtered_ids, or the error the sort raised.
SortIds(h, filtered_ids, sort_by, descending) ==
    LET items == [i \in 1..Len(filtered_ids) |->
                    [id |-> filtered_ids[i],
                     key |-> IF sort_by = "timestamp"
                             THEN TimestampKey(h, filtered_ids[i])
                             ELSE IdKey(filtered_ids[i])]]
        sorted == ListSort(items, descending)
    IN  IF SortRaises(items) THEN [raised |-> "TypeError", ids |-> <<>>]
        ELSE [raised |-> "", ids |-> [i \in 1..Len(sorted) |-> sorted[i].id]]

\* seq[start:end] for 0 <= start <= end
Slice(seq, start, end) ==
    SubSeq(seq, start + 1, IF end < Len(seq) THEN end ELSE Len(seq))

\* PageIds that takes the page number for the number of pages to skip.
PageIdsOffByOne(sorted_ids, page, page_size) ==
    Slice(sorted_ids, page * page_size, page * page_size + page_size)

\* page_ids
PageIds(sorted_ids, page, page_size) ==
    Slice(sorted_ids, (page - 1) * page_size, (page - 1) * page_size + page_size)

\* StateStr without sorted(): the states in the order they were read.
StateStrUnsorted(map, jid) ==
    Join(",", SelectSeq(StateKeys, LAMBDA s : s \in StatesOf(map, jid)))

\* state_str = ",".join(sorted(jobs_map[jid]))
StateStr(map, jid) ==
    Join(",", SelectSeq(AlphabeticalStates, LAMBDA s : s \in StatesOf(map, jid)))

\* The commands _collect_ids_from_key sends for a state key: TYPE, then the
\* read its type calls for.
ReadFor(c, state) ==
    IF c[state].t = "list" THEN <<[cmd |-> "LRANGE", key |-> state]>>
    ELSE IF c[state].t = "zset" THEN <<[cmd |-> "ZRANGE", key |-> state]>>
    ELSE IF c[state].t = "set" THEN <<[cmd |-> "SMEMBERS", key |-> state]>>
    ELSE <<>>

RECURSIVE KeyReads(_, _)
KeyReads(c, keys) ==
    IF keys = <<>> THEN <<>>
    ELSE <<[cmd |-> "TYPE", key |-> Head(keys)]>> \o ReadFor(c, Head(keys))
         \o KeyReads(c, Tail(keys))

NoCounts == [s \in States |-> 0]

\* get_jobs from the merged reads of the five state keys on: what it
\* returns (jobs, total_count, counts) or the error it raises, and the hash
\* reads it issued.
GetJobsFrom(map, counts, key_reads, h, page, page_size, search_term, status_filter, sort_by, descending) ==
    LET ids_to_search == IdsToSearch(map, status_filter)
        filtered_ids == FilteredIds(h, ids_to_search, search_term)
        sorted == SortIds(h, filtered_ids, sort_by, descending)
        page_ids == PageIds(sorted.ids, page, page_size)
        data_reads == DataReads(ids_to_search, search_term)
        ts_reads == IF sort_by = "timestamp" THEN filtered_ids ELSE <<>>
    IN  IF sorted.raised # ""
        THEN [raised |-> sorted.raised, jobs |-> <<>>, total_count |-> 0,
              counts |-> NoCounts, data_reads |-> data_reads,
              ts_reads |-> ts_reads, page_reads |-> <<>>,
              key_reads |-> key_reads]
        ELSE [raised |-> "",
              jobs |-> [i \in 1..Len(page_ids) |->
                          [id |-> page_ids[i], state |-> StateStr(map, page_ids[i])]],
              total_count |-> Len(filtered_ids),
              counts |-> counts,
              data_reads |-> data_reads,
              ts_reads |-> ts_reads,
              page_reads |-> page_ids,
              key_reads |-> key_reads]

\* get_jobs on a connected repository whose store no other client changes
\* during the call.
GetJobs(c, h, page, page_size, search_term, status_filter, sort_by, descending) ==
    GetJobsFrom(JobsMap(c), Counts(c), KeyReads(c, StateKeys), h, page, page_size,
                search_term, status_filter, sort_by, descending)

\* NoJobs without the test of self.r: the five state keys are probed and
\* the first command fails for want of a handle.
NoJobsProbing ==
    [raised |-> "AttributeError", jobs |-> <<>>, total_count |-> 0, counts |-> <<>>,
     data_reads |-> <<>>, ts_reads |-> <<>>, page_reads |-> <<>>,
     key_reads |-> <<[cmd |-> "TYPE", key |-> "wait"]>>]

\* get_jobs without a handle: return [], 0, {}
NoJobs ==
    [raised |-> "", jobs |-> <<>>, total_count |-> 0, counts |-> <<>>,
     data_reads |-> <<>>, ts_reads |-> <<>>, page_reads |-> <<>>,
     key_reads |-> <<>>]

\* get_jobs on a handle whose server does not answer: the first command,
\* the TYPE of the wait key, raises.
JobsUnreachable ==
    [raised |-> "ConnectionError", jobs |-> <<>>, total_count |-> 0,
     counts |-> NoCounts, data_reads |-> <<>>, ts_reads |-> <<>>,
     page_reads |-> <<>>, key_reads |-> <<[cmd |-> "TYPE", key |-> "wait"]>>]

(***************************************************************************)
(* get_job_detail.  data_json is data_raw, pretty-printed when it parses   *)
(* as JSON (the parse is inside try/except): it is not part of the model.  *)
(***************************************************************************)
\* The membership test of a state key's value by its type: LPOS, ZSCORE,
\* SISMEMBER; no test for another type.
IsMemberListHead(cv, job_id) ==
    IF cv.t = "list" THEN cv.m # <<>> /\ Head(cv.m) = job_id
    ELSE IF cv.t = "zset" THEN job_id \in Range(cv.m)
    ELSE IF cv.t = "set" THEN job_id \in Range(cv.m)
    ELSE FALSE

IsMember(cv, job_id) ==
    IF cv.t = "list" THEN \E i \in 1..Len(cv.m) : cv.m[i] = job_id
    ELSE IF cv.t = "zset" THEN job_id \in Range(cv.m)
    ELSE IF cv.t = "set" THEN job_id \in Range(cv.m)
    ELSE FALSE

\* data_raw without the fallback: the value HGETALL gave, None when the
\* field is missing.
DataRawUnchecked(h, job_id) == h[job_id].data

\* data_raw = h.get("data", "") or ""
DataRaw(h, job_id) == IF h[job_id].data = None THEN <<>> ELSE h[job_id].data

\* states, in the order the five keys are probed
ProbedStates(c, job_id) ==
    SelectSeq(StateKeys, LAMBDA state : IsMember(c[state], job_id))

\* sorted(states)
SortedStates(states) ==
    SelectSeq(AlphabeticalStates, LAMBDA state : state \in Range(states))

\* The commands get_job_detail sends: HGETALL, then per key TYPE and the
\* membership test its type calls for.
ProbeFor(c, state) ==
    IF c[state].t = "list" THEN <<[cmd |-> "LPOS", key |-> state]>>
    ELSE IF c[state].t = "zset" THEN <<[cmd |-> "ZSCORE", key |-> state]>>
    ELSE IF c[state].t = "set" THEN <<[cmd |-> "SISMEMBER", key |-> state]>>
    ELSE <<>>

RECURSIVE KeyProbes(_, _)
KeyProbes(c, keys) ==
    IF keys = <<>> THEN <<>>
    ELSE <<[cmd |-> "TYPE", key |-> Head(keys)]>> \o ProbeFor(c, Head(keys))
         \o KeyProbes(c, Tail(keys))

GetJobDetail(c, h, job_id) ==
    [raised |-> "",
     detail |-> [id |-> job_id,
                 name |-> IF h[job_id].name = None THEN <<>> ELSE h[job_id].name,
                 state |-> Join(",", SortedStates(ProbedStates(c, job_id))),
                 data_raw |-> DataRaw(h, job_id)],
     commands |-> <<[cmd |-> "HGETALL", key |-> "job"]>> \o KeyProbes(c, StateKeys)]

\* get_job_detail without a handle: return {}
NoDetail == [raised |-> "", detail |-> <<>>, commands |-> <<>>]

\* get_job_detail on a handle whose server does not answer
DetailUnreachable ==
    [raised |-> "ConnectionError", detail |-> <<>>,
     commands |-> <<[cmd |-> "HGETALL", key |-> "job"]>>]

(***************************************************************************)
(* get_queues.  A key is its characters.  keyspace holds the keys of the   *)
(* store other than the state, hash and logs keys of the queue modelled    *)
(* above, none of which ends in ":meta".                                   *)
(***************************************************************************)
\* self.prefix, for connect(url, "") and connect(url, "bull")
Prefix == <<"b", "u", "l", "l">>

Meta == <<"m", "e", "t", "a">>

\* f"{self.prefix}:{name}:meta"
MetaKey(name) == Prefix \o <<":">> \o name \o <<":">> \o Meta

StartsWith(str, head) ==
    Len(head) <= Len(str) /\ SubSeq(str, 1, Len(head)) = head

EndsWith(str, tail) ==
    Len(tail) <= Len(str) /\ SubSeq(str, Len(str) - Len(tail) + 1, Len(str)) = tail

\* MATCH f"{self.prefix}:*:meta": the glob's * stands for any characters,
\* colons among them.
MatchesPattern(key) ==
    /\ Len(key) >= Len(Prefix) + Len(Meta) + 2
    /\ StartsWith(key, Prefix \o <<":">>)
    /\ EndsWith(key, <<":">> \o Meta)

\* key.split(":")
RECURSIVE Split(_, _, _)
Split(str, part, parts) ==
    IF str = <<>> THEN Append(parts, part)
    ELSE IF Head(str) = ":" THEN Split(Tail(str), <<>>, Append(parts, part))
    ELSE Split(Tail(str), Append(part, Head(str)), parts)

\* The loop over one SCAN reply: queues after adding each key's parts[1].
AddQueues(queues, keys) ==
    queues \cup {Split(key, <<>>, <<>>)[2] :
                   key \in {k \in keys : Len(Split(k, <<>>, <<>>)) >= 3}}

\* sorted(queues): ascending by code point
RECURSIVE Sorted(_)
Sorted(names) ==
    IF names = {} THEN <<>>
    ELSE LET least == CHOOSE a \in names : \A b \in names \ {a} : StrLess(a, b)
         IN  <<least>> \o Sorted(names \ {least})

(***************************************************************************)
(* get_redis_info.  The INFO reply is a mapping of which a field may be    *)
(* missing (None).                                                         *)
(***************************************************************************)
\* info.get(field, default)
Get(info, field, default) == IF field \in DOMAIN info THEN info[field] ELSE default

\* used: used_memory_human, else used_memory in bytes, else "-"
UsedMemory(info) ==
    IF Get(info, "used_memory_human", "") # "" THEN info.used_memory_human
    ELSE IF "used_memory" \in DOMAIN info THEN info.used_memory \o " bytes"
    ELSE "-"

\* total: total_system_memory_human or maxmemory_human, else
\* total_system_memory or maxmemory in bytes (0 is falsy), else "-"
TotalMemory(info) ==
    LET human == IF Get(info, "total_system_memory_human", "") # ""
                 THEN info.total_system_memory_human
                 ELSE Get(info, "maxmemory_human", "")
        bytes == IF Get(info, "total_system_memory", "0") # "0"
                 THEN info.total_system_memory
                 ELSE Get(info, "maxmemory", "None")
    IN  IF human # "" THEN human
        ELSE IF bytes # "None" THEN bytes \o " bytes"
        ELSE "-"

GetRedisInfo(info) ==
    [raised |-> "",
     info |-> [version |-> Get(info, "redis_version", "-"),
               mode |-> Get(info, "redis_mode", "-"),
               used_memory |-> UsedMemory(info),
               total_memory |-> TotalMemory(info),
               clients |-> Get(info, "connected_clients", "-")],
     commands |-> <<"INFO">>]

\* get_redis_info without a handle: return {}
NoInfo == [raised |-> "", info |-> <<>>, commands |-> <<>>]

InfoUnreachable == [raised |-> "ConnectionError", info |-> <<>>, commands |-> <<"INFO">>]

(***************************************************************************)
(* delete_job.                                                             *)
(***************************************************************************)

\* RemovalFor without the dispatch on TYPE: LREM for every collection.
RemovalForList(c, state) ==
    IF c[state].t \in {"list", "zset", "set"} THEN "lrem" ELSE ""

\* The removal delete_job queues for a state key after probing its TYPE;
\* "" when it queues none.
RemovalFor(c, state) ==
    IF c[state].t = "list" THEN "lrem"
    ELSE IF c[state].t = "zset" THEN "zrem"
    ELSE IF c[state].t = "set" THEN "srem"
    ELSE ""

\* pipe after probing the given state keys in turn
RECURSIVE QueueRemovals(_, _, _)
QueueRemovals(pipe, c, keys) ==
    IF Len(keys) = 0 THEN pipe
    ELSE QueueRemovals(
            IF RemovalFor(c, Head(keys)) = "" THEN pipe
            ELSE Append(pipe, [cmd |-> RemovalFor(c, Head(keys)), key |-> Head(keys)]),
            c, Tail(keys))

TypeFor(cmd) == CASE cmd = "lrem" -> "list" [] cmd = "zrem" -> "zset" [] OTHER -> "set"

RECURSIVE WithoutFirst(_, _)
WithoutFirst(seq, x) ==
    IF Len(seq) = 0 THEN seq
    ELSE IF Head(seq) = x THEN Tail(seq)
    ELSE <<Head(seq)>> \o WithoutFirst(Tail(seq), x)

\* Removed with LREM key 1 id: only the first occurrence goes.
RemovedFirstOnly(cv, cmd, jid) ==
    IF cv.t = TypeFor(cmd) THEN Normalize([cv EXCEPT !.m = WithoutFirst(cv.m, jid)])
    ELSE cv

\* LREM key 0 id / ZREM key id / SREM key id on a key's value: every
\* occurrence of the id goes; a missing key is left alone; a key of another
\* type is left alone and the command fails (WRONGTYPE).
Removed(cv, cmd, jid) ==
    IF cv.t = TypeFor(cmd)
    THEN Normalize([cv EXCEPT !.m = SelectSeq(cv.m, LAMBDA x : x # jid)])
    ELSE cv

WrongType(cv, cmd) == cv.t # "none" /\ cv.t # TypeFor(cmd)

\* pipe.execute(): the queued commands applied in order, in one MULTI/EXEC;
\* [coll, raised]: redis-py raises the first command error after the
\* transaction ran.
RECURSIVE Execute(_, _, _)
Execute(res, pipe, jid) ==
    IF Len(pipe) = 0 THEN res
    ELSE LET p == Head(pipe)
         IN  Execute([coll |-> [res.coll EXCEPT ![p.key] = Removed(@, p.cmd, jid)],
                      raised |-> IF res.raised = "" /\ WrongType(res.coll[p.key], p.cmd)
                                 THEN "ResponseError" ELSE res.raised],
                     Tail(pipe), jid)

\* The characters of a state key after <prefix>:<queue>:
Suffix(state) ==
    CASE state = "wait" -> <<"w", "a", "i", "t">>
      [] state = "active" -> <<"a", "c", "t", "i", "v", "e">>
      [] state = "delayed" -> <<"d", "e", "l", "a", "y", "e", "d">>
      [] state = "completed" -> <<"c", "o", "m", "p", "l", "e", "t", "e", "d">>
      [] OTHER -> <<"f", "a", "i", "l", "e", "d">>

LogsSuffix == <<":", "l", "o", "g", "s">>

\* job_key = f"{base}:{job_id}" and logs_key = f"{base}:{job_id}:logs" are
\* keys by their characters: the state keys that job_key names, the jobs
\* whose hash it names, the jobs whose logs either of the two names.
StatesNamed(job_id) == {state \in States : Suffix(state) = job_id}

HashesNamed(h, job_id) == {jid \in DOMAIN h : jid = job_id}

LogsNamed(l, job_id) == {jid \in l : jid = job_id \/ jid \o LogsSuffix = job_id}

\* pipe.delete(job_key, logs_key): DEL removes the two keys, whatever they
\* hold.
Delete(c, h, l, job_id) ==
    [coll |-> [state \in States |->
                  IF state \in StatesNamed(job_id) THEN Absent ELSE c[state]],
     hashes |-> [jid \in DOMAIN h |->
                    IF jid \in HashesNamed(h, job_id) THEN NoHash ELSE h[jid]],
     logs |-> l \ LogsNamed(l, job_id)]

\* delete_job on a connected repository, run to its return: the store it
\* leaves and the error it raises.
DeleteJob(c, h, l, job_id) ==
    LET pipe == QueueRemovals(<<>>, c, StateKeys)
        done == Execute([coll |-> c, raised |-> ""], pipe, job_id)
        deleted == Delete(done.coll, h, l, job_id)
    IN  [coll |-> deleted.coll,
         hashes |-> deleted.hashes,
         logs |-> deleted.logs,
         raised |-> done.raised]

Supported == {"list", "zset", "set"}

\* The ids that are members of a state's collection.
Members(c, state) == IF c[state].t \in Supported THEN Range(c[state].m) ELSE {}

(***************************************************************************)
(* The stores the behaviours start from.                                   *)
(***************************************************************************)
J9 == <<"9">>

J10 == <<"1", "0">>

JA == <<"A">>

Jb == <<"b">>

Ids == {J9, J10, JA, Jb}

List(m) == [t |-> "list", m |-> m]

ZSet(m) == [t |-> "zset", m |-> m]

SetOf(m) == [t |-> "set", m |-> m]

\* A key holding a value of a type get_jobs does not read.
StringKey == [t |-> "string", m |-> <<>>]

InitColls ==
    [wait : {List(<<J9, J10, J9>>), ZSet(<<J10, J9>>), SetOf(<<JA, Jb>>)},
     active : {Absent},
     delayed : {StringKey},
     completed : {List(<<J9>>), ZSet(<<J9, J10>>), SetOf(<<J10, JA>>)},
     failed : {Absent, SetOf(<<J9, JA>>)}]

Hash(name, data, timestamp) == [name |-> name, data |-> data, timestamp |-> timestamp]

InitHashes ==
    {(J9 :> Hash(<<"x">>, <<"x", "A">>, <<"1", "2">>)) @@
     (J10 :> Hash(<<"x">>, None, <<"5">>)) @@
     (JA :> Hash(None, <<"b", "9">>, None)) @@
     (Jb :> Hash(<<"x">>, <<>>, <<"z", "z">>)),
     (J9 :> Hash(<<"x">>, None, <<"5">>)) @@
     (J10 :> Hash(<<"x">>, <<"a">>, <<"5">>)) @@
     (JA :> NoHash) @@
     (Jb :> Hash(None, <<"A", "B">>, <<"-", "3">>))}

SearchTerms == {<<>>, <<"A">>}

StatusFilters == States \cup {""}

SortBys == {"timestamp", "id"}

\* self.r: None, the handle of a server that answers, or the handle of one
\* that does not.
Handles == {"live", "dead"}

GetIdle ==
    [pc |-> "idle", args |-> <<>>, i |-> 0, t |-> "", map |-> <<>>,
     counts |-> NoCounts, key_reads |-> <<>>, pre |-> <<>>]

ScanIdle == [pc |-> "idle", cursor |-> 0, seen |-> {}, queues |-> {}, calls |-> 0]

\* MainWindow before it is shown: no worker, no queue selected, the timer
\* stopped, the tables without rows.  workers holds every Worker made, in the order of their start;
\* events is the main thread's queue of signal deliveries; applied is the
\* last call of a result or error slot and the workers started by then.
Closed ==
    [open |-> FALSE, enabled |-> TRUE, current_queue |-> FALSE, timer |-> FALSE,
     queues_rows |-> FALSE, jobs_rows |-> FALSE, worker |-> 0, zombies |-> {}, workers |-> <<>>, events |-> <<>>,
     applied |-> [slot |-> "", worker |-> 0, started |-> 0]]

Idle == [pc |-> "idle", job_id |-> <<>>, i |-> 0, pipe |-> <<>>, moves |-> 0]

NoCall == [op |-> "none", args |-> <<>>, ret |-> <<>>, pre |-> <<>>]

Init ==
    /\ coll \in InitColls
    /\ hashes \in InitHashes
    /\ logs = {J9, JA}
    /\ last = NoCall
    /\ del = Idle
    /\ r = "live"
    /\ get = GetIdle
    /\ scan = ScanIdle
    /\ ui = Closed
    /\ keyspace = {MetaKey(<<"x">>)}

(***************************************************************************)
(* The repository's operations, each a call that runs to its return.  The  *)
(* caller issues one call at a time: last is the outcome it is being       *)
(* handed, which it takes (Return) before its next call; _delete_and_reload*)
(* calls list_jobs straight after delete_job.                              *)
(***************************************************************************)
GetJobsCall(page, page_size, search_term, status_filter, sort_by, descending) ==
    /\ last.op \in {"none", "delete_job"} /\ scan.pc = "idle"
    /\ last' = [op |-> "get_jobs",
                args |-> [page |-> page, page_size |-> page_size,
                          search_term |-> search_term,
                          status_filter |-> status_filter,
                          sort_by |-> sort_by, descending |-> descending],
                ret |-> IF r = "None" THEN NoJobs
                        ELSE IF r = "dead" THEN JobsUnreachable
                        ELSE GetJobs(coll, hashes, page, page_size, search_term,
                                     status_filter, sort_by, descending),
                pre |-> coll]
    /\ UNCHANGED <<coll, hashes, logs, del, r, get, scan, ui, keyspace>>

DeleteJobCall(job_id) ==
    LET done == DeleteJob(coll, hashes, logs, job_id)
    IN  /\ last.op = "none" /\ scan.pc = "idle"
        /\ IF r = "live"
           THEN /\ coll' = done.coll
                /\ hashes' = done.hashes
                /\ logs' = done.logs
           ELSE UNCHANGED <<coll, hashes, logs>>
        /\ last' = [op |-> "delete_job", args |-> [job_id |-> job_id],
                    ret |-> [raised |-> IF r = "live" THEN done.raised
                                        ELSE IF r = "dead" THEN "ConnectionError"
                                        ELSE ""],
                    pre |-> coll]
        /\ UNCHANGED <<del, r, get, scan, ui, keyspace>>

\* on_view_clicked asks for the detail of a job of the listing it was handed.
GetJobDetailCall(job_id) ==
    /\ last.op \in {"none", "delete_job", "get_jobs"} /\ scan.pc = "idle"
    /\ last' = [op |-> "get_job_detail", args |-> [job_id |-> job_id],
                ret |-> IF r = "None" THEN NoDetail
                        ELSE IF r = "dead" THEN DetailUnreachable
                        ELSE GetJobDetail(coll, hashes, job_id),
                pre |-> coll]
    /\ UNCHANGED <<coll, hashes, logs, del, r, get, scan, ui, keyspace>>

\* connect: the handle is assigned, then the server is pinged.
ConnectCall(answers) ==
    /\ last.op = "none" /\ scan.pc = "idle"
    /\ r' = IF answers THEN "live" ELSE "dead"
    /\ last' = [op |-> "connect", args |-> [answers |-> answers],
                ret |-> [raised |-> IF answers THEN "" ELSE "ConnectionError"],
                pre |-> coll]
    /\ UNCHANGED <<coll, hashes, logs, del, get, scan, ui, keyspace>>

\* disconnect: a handle is closed and forgotten; without one, nothing.
DisconnectCall ==
    /\ last.op = "none" /\ scan.pc = "idle"
    /\ r' = "None"
    /\ last' = [op |-> "disconnect", args |-> [had |-> r],
                ret |-> [raised |-> "", commands |-> <<>>], pre |-> coll]
    /\ UNCHANGED <<coll, hashes, logs, del, get, scan, ui, keyspace>>

GetRedisInfoCall(info) ==
    /\ last.op = "none" /\ scan.pc = "idle"
    /\ last' = [op |-> "get_redis_info", args |-> [info |-> info],
                ret |-> IF r = "None" THEN NoInfo
                        ELSE IF r = "dead" THEN InfoUnreachable
                        ELSE GetRedisInfo(info),
                pre |-> coll]
    /\ UNCHANGED <<coll, hashes, logs, del, r, get, scan, ui, keyspace>>

\* get_queues up to its first SCAN: without a handle it returns [].
GetQueuesBegin ==
    /\ last.op = "none" /\ scan.pc = "idle"
    /\ IF r = "None"
       THEN /\ last' = [op |-> "get_queues", args |-> <<>>,
                        ret |-> [raised |-> "", queues |-> <<>>, commands |-> <<>>],
                        pre |-> coll]
            /\ UNCHANGED scan
       ELSE /\ scan' = [pc |-> "scan", cursor |-> 0, seen |-> {}, queues |-> {},
                        calls |-> 0]
            /\ UNCHANGED last
    /\ UNCHANGED <<coll, hashes, logs, del, r, get, ui, keyspace>>

\* One SCAN and the loop over its reply.  The server walks the keyspace in
\* steps of its choosing and may return a key more than once; it returns
\* cursor 0 only after every key was walked.
GetQueuesScan(batch, finished) ==
    /\ scan.pc = "scan" /\ scan.calls < MaxScans
    /\ IF r = "dead"
       THEN /\ last' = [op |-> "get_queues", args |-> <<>>,
                        ret |-> [raised |-> "ConnectionError", queues |-> <<>>,
                                 commands |-> <<"SCAN">>],
                        pre |-> coll]
            /\ scan' = ScanIdle
       ELSE LET seen == scan.seen \cup batch
                cursor == IF finished /\ seen = keyspace THEN 0 ELSE scan.calls + 1
                queues == AddQueues(scan.queues, {key \in batch : MatchesPattern(key)})
            IN  IF cursor = 0
                THEN /\ last' = [op |-> "get_queues", args |-> <<>>,
                                 ret |-> [raised |-> "", queues |-> Sorted(queues),
                                          commands |-> [i \in 1..(scan.calls + 1) |-> "SCAN"]],
                                 pre |-> coll]
                     /\ scan' = ScanIdle
                ELSE /\ scan' = [scan EXCEPT !.cursor = cursor, !.seen = seen,
                                             !.queues = queues, !.calls = @ + 1]
                     /\ UNCHANGED last
    /\ UNCHANGED <<coll, hashes, logs, del, r, get, ui, keyspace>>

Return ==
    /\ last.op # "none"
    /\ last' = NoCall
    /\ UNCHANGED <<coll, hashes, logs, del, r, get, scan, ui, keyspace>>

Next ==
    \/ \E page \in 1..MaxPage, page_size \in PageSizes, search_term \in SearchTerms,
          status_filter \in StatusFilters, sort_by \in SortBys, descending \in BOOLEAN :
            GetJobsCall(page, page_size, search_term, status_filter, sort_by, descending)
    \/ \E job_id \in Ids : DeleteJobCall(job_id)
    \/ Return

Spec == Init /\ [][Next]_vars

(***************************************************************************)
(* The calls of the job table's buttons: a listing, the detail of a job    *)
(* (View) and a delete (Delete), in any order.                             *)
(***************************************************************************)
NextDetail ==
    \/ \E page \in 1..MaxPage, page_size \in PageSizes,
          status_filter \in StatusFilters, sort_by \in SortBys, descending \in BOOLEAN :
            GetJobsCall(page, page_size, <<>>, status_filter, sort_by, descending)
    \/ \E job_id \in Ids : DeleteJobCall(job_id)
    \/ \E job_id \in Ids : GetJobDetailCall(job_id)
    \/ Return

SpecDetail == Init /\ [][NextDetail]_vars

(***************************************************************************)
(* The repository from its construction: connect, disconnect and the       *)
(* calls, with and without a handle.                                       *)
(***************************************************************************)
\* INFO replies: a server that reports every field, one that reports
\* memory in bytes only, and an empty reply.
InfoReplies ==
    {[redis_version |-> "7.2.4", redis_mode |-> "standalone",
      used_memory_human |-> "1.00M", used_memory |-> "1048576",
      total_system_memory_human |-> "8.00G", total_system_memory |-> "8589934592",
      maxmemory |-> "0", connected_clients |-> "1"],
     [used_memory |-> "1048576", total_system_memory |-> "0", maxmemory |-> "0"],
     <<>>}

Batches == {batch \in SUBSET keyspace : Cardinality(batch) <= MaxBatch}

InitConn ==
    /\ coll \in InitColls
    /\ hashes \in InitHashes
    /\ logs = {J9, JA}
    /\ last = NoCall
    /\ del = Idle
    /\ r = "None"
    /\ get = GetIdle
    /\ scan = ScanIdle
    /\ ui = Closed
    /\ keyspace = {MetaKey(<<"x">>), MetaKey(<<"a">>)}

NextConn ==
    \/ \E answers \in BOOLEAN : ConnectCall(answers)
    \/ DisconnectCall
    \/ \E info \in InfoReplies : GetRedisInfoCall(info)
    \/ GetQueuesBegin
    \/ \E batch \in Batches, finished \in BOOLEAN : GetQueuesScan(batch, finished)
    \/ \E page \in 1..MaxPage, page_size \in PageSizes, search_term \in SearchTerms,
          sort_by \in SortBys :
            GetJobsCall(page, page_size, search_term, "", sort_by, TRUE)
    \/ \E job_id \in Ids : GetJobDetailCall(job_id)
    \/ \E job_id \in Ids : DeleteJobCall(job_id)
    \/ Return

SpecConn == InitConn /\ [][NextConn]_vars

(***************************************************************************)
(* get_queues over keyspaces that hold, beside queues' meta keys, other    *)
(* keys under the prefix and keys under another prefix.                    *)
(***************************************************************************)
Key(parts) == Prefix \o <<":">> \o parts

KeyUniverse ==
    {MetaKey(<<"a">>), MetaKey(<<"B">>),
     Key(<<"a", ":", "w", "a", "i", "t">>),
     Key(<<"a", ":", "b", ":", "m", "e", "t", "a">>),
     Key(<<"x", ":", "b", ":", "m", "e", "t", "a">>),
     <<"b", "u", "l", "l", "a", ":", "z", ":", "m", "e", "t", "a">>}

InitScan ==
    /\ coll = [s \in States |-> Absent]
    /\ hashes = [jid \in Ids |-> NoHash]
    /\ logs = {}
    /\ last = NoCall
    /\ del = Idle
    /\ r = "live"
    /\ get = GetIdle
    /\ scan = ScanIdle
    /\ ui = Closed
    /\ keyspace \in SUBSET KeyUniverse

NextScan ==
    \/ GetQueuesBegin
    \/ \E batch \in Batches, finished \in BOOLEAN : GetQueuesScan(batch, finished)
    \/ Return

SpecScan == InitScan /\ [][NextScan]_vars

(***************************************************************************)
(* delete_job one round trip at a time, beside another client of the store.*)
(* Each TYPE probe is a round trip of its own; the queued removals and the *)
(* DEL of the hash and logs keys run together in pipe.execute().           *)
(***************************************************************************)
DeleteBegin(job_id) ==
    /\ last.op = "none" /\ del.pc = "idle"
    /\ del' = [del EXCEPT !.pc = "probe", !.job_id = job_id, !.i = 1, !.pipe = <<>>]
    /\ UNCHANGED <<coll, hashes, logs, last, r, get, scan, ui, keyspace>>

DeleteProbe ==
    /\ del.pc = "probe"
    /\ del' = [del EXCEPT !.pipe = QueueRemovals(del.pipe, coll, <<StateKeys[del.i]>>),
                          !.i = del.i + 1,
                          !.pc = IF del.i = Len(StateKeys) THEN "execute" ELSE "probe"]
    /\ UNCHANGED <<coll, hashes, logs, last, r, get, scan, ui, keyspace>>

DeleteExecute ==
    /\ del.pc = "execute"
    /\ LET done == Execute([coll |-> coll, raised |-> ""], del.pipe, del.job_id)
           deleted == Delete(done.coll, hashes, logs, del.job_id)
       IN  /\ coll' = deleted.coll
           /\ hashes' = deleted.hashes
           /\ logs' = deleted.logs
           /\ last' = [op |-> "delete_job", args |-> [job_id |-> del.job_id],
                       ret |-> [raised |-> done.raised], pre |-> coll]
    /\ del' = [Idle EXCEPT !.moves = del.moves]
    /\ UNCHANGED <<r, get, scan, ui, keyspace>>

\* The type the queue library gives a state key it creates.
LibraryType(state) == IF state \in {"wait", "active"} THEN "list" ELSE "zset"

\* A member added to a key's value by its type's command.
Added(cv, state, jid) ==
    IF cv.t = "none" THEN [t |-> LibraryType(state), m |-> <<jid>>]
    ELSE IF cv.t = "list" \/ jid \notin Range(cv.m) THEN [cv EXCEPT !.m = Append(@, jid)]
    ELSE cv

\* Another client of the store moves a job from one state collection to
\* another, atomically (one script).
MoveJob(jid, from, to) ==
    /\ del.moves < MaxMoves
    /\ from # to
    /\ jid \in Members(coll, from)
    /\ coll[to].t \in Supported \cup {"none"}
    /\ coll' = [coll EXCEPT
                  ![from] = Normalize([@ EXCEPT !.m = WithoutFirst(@, jid)]),
                  ![to] = Added(@, to, jid)]
    /\ del' = [del EXCEPT !.moves = @ + 1]
    /\ UNCHANGED <<hashes, logs, last, r, get, scan, ui, keyspace>>

NextRace ==
    \/ \E job_id \in Ids : DeleteBegin(job_id)
    \/ DeleteProbe
    \/ DeleteExecute
    \/ \E jid \in Ids, from \in States, to \in States : MoveJob(jid, from, to)
    \/ Return

SpecRace == Init /\ [][NextRace]_vars

(***************************************************************************)
(* get_jobs one round trip at a time, beside another client of the store:  *)
(* per state key a TYPE and then the read that type calls for.  The other  *)
(* client leaves the job hashes alone, so the pipelines that follow the    *)
(* five reads are taken in one step.                                       *)
(***************************************************************************)
GetJobsBegin(page, page_size, sort_by, descending) ==
    /\ last.op = "none" /\ get.pc = "idle"
    /\ get' = [GetIdle EXCEPT
                 !.pc = "type", !.i = 1, !.pre = coll,
                 !.args = [page |-> page, page_size |-> page_size,
                           search_term |-> <<>>, status_filter |-> "",
                           sort_by |-> sort_by, descending |-> descending]]
    /\ UNCHANGED <<coll, hashes, logs, last, del, r, scan, ui, keyspace>>

\* t = self.r.type(key); a key of another type is read as empty.
GetJobsType ==
    /\ get.pc = "type"
    /\ LET state == StateKeys[get.i]
           t == coll[state].t
       IN  get' = [get EXCEPT
                     !.t = t,
                     !.key_reads = Append(@, [cmd |-> "TYPE", key |-> state]),
                     !.pc = IF t \in {"list", "zset", "set"} THEN "read"
                            ELSE IF get.i = Len(StateKeys) THEN "rest" ELSE "type",
                     !.i = IF t \in {"list", "zset", "set"} \/ get.i = Len(StateKeys)
                           THEN @ ELSE @ + 1]
    /\ UNCHANGED <<coll, hashes, logs, last, del, r, scan, ui, keyspace>>

\* LRANGE / ZRANGE / SMEMBERS as the TYPE reply called for: the key's
\* members, nothing if the key is gone, WRONGTYPE if its type changed.
GetJobsRead ==
    /\ get.pc = "read"
    /\ LET state == StateKeys[get.i]
           cv == coll[state]
           ids == IF cv.t = get.t THEN CollectIdsFromKey(cv) ELSE <<>>
           reads == Append(get.key_reads, [cmd |-> ReadFor([coll EXCEPT ![state].t = get.t],
                                                            state)[1].cmd,
                                           key |-> state])
       IN  IF cv.t \notin {get.t, "none"}
           THEN /\ last' = [op |-> "get_jobs", args |-> get.args,
                            ret |-> [raised |-> "ResponseError", jobs |-> <<>>,
                                     total_count |-> 0, counts |-> NoCounts,
                                     data_reads |-> <<>>, ts_reads |-> <<>>,
                                     page_reads |-> <<>>, key_reads |-> reads],
                            pre |-> get.pre]
                /\ get' = [get EXCEPT !.pc = "idle", !.key_reads = reads]
           ELSE /\ get' = [get EXCEPT
                             !.counts[state] = Len(ids),
                             !.map = AddIds(@, state, ids),
                             !.key_reads = reads,
                             !.pc = IF get.i = Len(StateKeys) THEN "rest" ELSE "type",
                             !.i = IF get.i = Len(StateKeys) THEN @ ELSE @ + 1]
                /\ UNCHANGED last
    /\ UNCHANGED <<coll, hashes, logs, del, r, scan, ui, keyspace>>

\* The rest of get_jobs, from all_ids to the return.  get.map keeps the
\* merged reads for the claims to look at.
GetJobsRest ==
    /\ get.pc = "rest"
    /\ last' = [op |-> "get_jobs", args |-> get.args,
                ret |-> GetJobsFrom(get.map, get.counts, get.key_reads, hashes,
                                    get.args.page, get.args.page_size,
                                    get.args.search_term, get.args.status_filter,
                                    get.args.sort_by, get.args.descending),
                pre |-> get.pre]
    /\ get' = [get EXCEPT !.pc = "idle"]
    /\ UNCHANGED <<coll, hashes, logs, del, r, scan, ui, keyspace>>

NextGetRace ==
    \/ \E page_size \in PageSizes, sort_by \in SortBys :
          GetJobsBegin(1, page_size, sort_by, TRUE)
    \/ GetJobsType
    \/ GetJobsRead
    \/ GetJobsRest
    \/ \E jid \in Ids, from \in States, to \in States : MoveJob(jid, from, to)
    \/ Return

SpecGetRace == Init /\ [][NextGetRace]_vars

(***************************************************************************)
(* The window (presentation_qt.py: MainWindow) and its Workers.  A slot    *)
(* runs on the main thread from its first line to its last; a Worker runs  *)
(* its function on a thread of its own, emits finished or error, and its   *)
(* run() returns.  A signal emitted on the Worker's thread reaches a slot  *)
(* of the window as an event queued to the main thread.  What the function *)
(* does to the store is not part of this specification: a Worker's outcome *)
(* is its result or its error.                                             *)
(***************************************************************************)
\* QThread.isRunning(): from start() until run() has returned
IsRunning(u, w) == u.workers[w].status \in {"running", "emitted"}

\* The deliveries of a worker's signals still queued when its signals are
\* disconnected stay queued (FALSE) or are dropped (TRUE).
WithoutEventsOf(events, w, dropped) ==
    IF dropped THEN SelectSeq(events, LAMBDA e : e.worker # w) ELSE events

\* _start_worker(worker, on_finished): a previous worker still running has
\* its signals disconnected, is kept among the zombies and has
\* _cleanup_zombie connected; the new worker becomes self.worker, gets its
\* slots and is started.
StartWorker(u, op, on_finished, dropped) ==
    LET old == u.worker
        superseded == old # 0 /\ IsRunning(u, old)
        parted == IF superseded
                  THEN [u EXCEPT
                          !.workers[old].finished = "_cleanup_zombie",
                          !.workers[old].error = "_cleanup_zombie",
                          !.zombies = @ \cup {old},
                          !.events = WithoutEventsOf(@, old, dropped)]
                  ELSE u
    IN  [parted EXCEPT
           !.worker = Len(u.workers) + 1,
           !.workers = Append(@, [op |-> op, status |-> "running",
                                  finished |-> on_finished,
                                  error |-> "on_worker_error"])]

\* refresh_jobs(silent, auto)
RefreshJobs(u, silent, dropped) ==
    IF ~u.current_queue THEN u
    ELSE IF u.worker # 0 /\ IsRunning(u, u.worker) /\ silent THEN u
    ELSE StartWorker([u EXCEPT !.enabled = IF silent THEN @ ELSE FALSE],
                     "list_jobs", "on_jobs_loaded", dropped)

UiStep(u) ==
    /\ ui' = u
    /\ UNCHANGED <<coll, hashes, logs, last, del, r, get, scan, keyspace>>

\* The window is shown.
Show ==
    /\ ~ui.open
    /\ UiStep([ui EXCEPT !.open = TRUE])

\* on_connect_clicked, with a connection string entered
OnConnectClicked(dropped) ==
    /\ ui.open /\ ui.enabled /\ Len(ui.workers) < MaxWorkers
    /\ UiStep(StartWorker([ui EXCEPT !.enabled = FALSE], "_connect_and_list",
                          "on_connect_finished", dropped))

\* on_queue_selected, on a row of the queues table
OnQueueSelected(dropped) ==
    /\ ui.open /\ ui.enabled /\ Len(ui.workers) < MaxWorkers
    /\ ui.queues_rows
    /\ UiStep(RefreshJobs([ui EXCEPT !.current_queue = TRUE], FALSE, dropped))

\* on_auto_refresh_toggled
OnAutoRefreshToggled ==
    /\ ui.open /\ ui.enabled
    /\ UiStep([ui EXCEPT !.timer = ~@])

\* auto_refresh_timer.timeout: refresh_jobs(silent=True, auto=True)
OnTimeout ==
    /\ ui.open /\ ui.timer /\ Len(ui.workers) < MaxWorkers
    /\ UiStep(RefreshJobs(ui, TRUE, FALSE))

\* on_header_clicked, on_status_card_clicked, on_search, on_prev_page,
\* on_next_page: each ends in refresh_jobs()
OnRefreshClicked(dropped) ==
    /\ ui.open /\ ui.enabled /\ ui.current_queue /\ Len(ui.workers) < MaxWorkers
    /\ UiStep(RefreshJobs(ui, FALSE, dropped))

\* on_view_clicked, on a row of the jobs table
OnViewClicked(dropped) ==
    /\ ui.open /\ ui.enabled /\ ui.current_queue /\ Len(ui.workers) < MaxWorkers
    /\ ui.jobs_rows
    /\ UiStep(StartWorker([ui EXCEPT !.enabled = FALSE], "_load_job_detail",
                          "on_job_detail_loaded", dropped))

\* on_delete_clicked, on a row of the jobs table, the question answered Yes
OnDeleteClicked(dropped) ==
    /\ ui.open /\ ui.enabled /\ ui.current_queue /\ Len(ui.workers) < MaxWorkers
    /\ ui.jobs_rows
    /\ UiStep(StartWorker([ui EXCEPT !.enabled = FALSE], "_delete_and_reload",
                          "on_jobs_loaded", dropped))

\* Worker.run: the function has returned or raised, and the signal is
\* emitted to the slot connected at this instant.
WorkerEmit(w, raised) ==
    /\ w \in 1..Len(ui.workers) /\ ui.workers[w].status = "running"
    /\ UiStep([ui EXCEPT
                 !.workers[w].status = "emitted",
                 !.events = Append(@, [worker |-> w,
                                       slot |-> IF raised THEN ui.workers[w].error
                                                ELSE ui.workers[w].finished])])

\* Worker.run returns.
WorkerReturn(w) ==
    /\ w \in 1..Len(ui.workers) /\ ui.workers[w].status = "emitted"
    /\ UiStep([ui EXCEPT !.workers[w].status = "finished"])

\* The main thread takes the next queued delivery and runs its slot.
\* on_jobs_loaded, on_job_detail_loaded, on_connect_finished and
\* on_worker_error end the loading state; on_connect_finished fills the
\* queues table, clears the selected queue and the jobs table;
\* on_jobs_loaded fills the jobs table; _cleanup_zombie waits for the
\* thread.
Deliver ==
    /\ ui.events # <<>>
    /\ LET e == Head(ui.events)
           rest == [ui EXCEPT !.events = Tail(@)]
       IN  IF e.slot = "_cleanup_zombie"
           THEN UiStep([rest EXCEPT !.zombies = @ \ {e.worker},
                                    !.workers[e.worker].status =
                                        IF e.worker \in ui.zombies THEN "finished" ELSE @])
           ELSE UiStep([rest EXCEPT
                          !.enabled = TRUE,
                          !.current_queue = IF e.slot = "on_connect_finished"
                                            THEN FALSE ELSE @,
                          !.queues_rows = IF e.slot = "on_connect_finished"
                                          THEN TRUE ELSE @,
                          !.jobs_rows = IF e.slot = "on_connect_finished" THEN FALSE
                                        ELSE IF e.slot = "on_jobs_loaded" THEN TRUE
                                        ELSE @,
                          !.applied = [slot |-> e.slot, worker |-> e.worker,
                                       started |-> Len(ui.workers)]])

InitUI ==
    /\ coll = [s \in States |-> Absent]
    /\ hashes = [jid \in Ids |-> NoHash]
    /\ logs = {}
    /\ last = NoCall
    /\ del = Idle
    /\ r = "None"
    /\ get = GetIdle
    /\ scan = ScanIdle
    /\ ui = Closed
    /\ keyspace = {}

NextUI ==
    \/ Show
    \/ \E dropped \in BOOLEAN : OnConnectClicked(dropped)
    \/ \E dropped \in BOOLEAN : OnQueueSelected(dropped)
    \/ OnAutoRefreshToggled
    \/ OnTimeout
    \/ \E dropped \in BOOLEAN : OnRefreshClicked(dropped)
    \/ \E dropped \in BOOLEAN : OnViewClicked(dropped)
    \/ \E dropped \in BOOLEAN : OnDeleteClicked(dropped)
    \/ \E w \in 1..MaxWorkers, raised \in BOOLEAN : WorkerEmit(w, raised)
    \/ \E w \in 1..MaxWorkers : WorkerReturn(w)
    \/ Deliver

SpecUI == InitUI /\ [][NextUI]_vars

(***************************************************************************)
(* delete_job called with any string as the job id: the ids of the jobs,   *)
(* and strings that, put after <prefix>:<queue>:, spell the key of a state *)
(* collection or the logs key of a job.                                    *)
(***************************************************************************)
JobIdStrings == Ids \cup {Suffix("wait"), Suffix("completed"), J9 \o LogsSuffix}

NextFrame ==
    \/ \E job_id \in JobIdStrings : DeleteJobCall(job_id)
    \/ Return

SpecFrame == Init /\ [][NextFrame]_vars

(***************************************************************************)
(* The window's view of one queue (presentation_qt.py): the query          *)
(* parameters it keeps, the rows of the jobs table and the total it was    *)
(* handed.  Here every handler runs with the Worker it starts and the slot *)
(* that takes the Worker's outcome as one step: the window is disabled     *)
(* while it loads.  ui is the view; last is the list_jobs call of the      *)
(* Worker.                                                                 *)
(***************************************************************************)
\* MainWindow.__init__; func is the function of the Worker whose outcome
\* the window took last.
NoView ==
    [current_queue |-> FALSE, current_page |-> 1, total_jobs |-> 0,
     current_search |-> <<>>, current_status_filter |-> "",
     current_sort_column |-> "timestamp", current_sort_descending |-> TRUE,
     rows |-> <<>>, func |-> ""]

\* max(1, ((self.total_jobs - 1) // self.page_size) + 1)
MaxPages(total_jobs) ==
    LET pages == ((total_jobs - 1) \div ViewPageSize) + 1
    IN  IF pages > 1 THEN pages ELSE 1

\* on_jobs_loaded(result): the total and the rows are taken from the
\* result, current_page is left as it is; on_worker_error: nothing of the
\* view changes.
OnJobsLoaded(u, ret) ==
    IF ret.raised # "" THEN u
    ELSE [u EXCEPT !.total_jobs = ret.total_count,
                   !.rows = [i \in 1..Len(ret.jobs) |-> ret.jobs[i].id]]

\* A Worker on func(...) that ends in service.list_jobs on the store
\* (c, h, l), and the slot that takes its outcome.
Load(u, func, c, h, l, removed, sort_by, descending) ==
    LET args == [page |-> u.current_page, page_size |-> ViewPageSize,
                 search_term |-> u.current_search,
                 status_filter |-> u.current_status_filter,
                 sort_by |-> sort_by, descending |-> descending]
        ret == IF removed # "" THEN [NoJobs EXCEPT !.raised = removed]
               ELSE GetJobs(c, h, args.page, args.page_size, args.search_term,
                            args.status_filter, args.sort_by, args.descending)
    IN  /\ ui' = OnJobsLoaded([u EXCEPT !.func = func], ret)
        /\ last' = [op |-> "get_jobs", args |-> args, ret |-> ret, pre |-> coll]
        /\ coll' = c /\ hashes' = h /\ logs' = l
        /\ UNCHANGED <<del, r, get, scan, keyspace>>

\* refresh_jobs(): service.list_jobs with the six parameters of the view
ViewRefreshJobs(u) ==
    Load(u, "list_jobs", coll, hashes, logs, "",
         u.current_sort_column, u.current_sort_descending)

ViewQueueSelected ==
    ViewRefreshJobs([ui EXCEPT !.current_queue = TRUE, !.current_page = 1,
                               !.current_search = <<>>,
                               !.current_status_filter = "",
                               !.current_sort_column = "timestamp",
                               !.current_sort_descending = TRUE])

\* on_header_clicked on the ID or the Created At column
ViewHeaderClicked(new_sort_column) ==
    /\ ui.current_queue
    /\ ViewRefreshJobs(
          [ui EXCEPT !.current_sort_descending =
                         IF ui.current_sort_column = new_sort_column THEN ~@ ELSE TRUE,
                     !.current_sort_column = new_sort_column,
                     !.current_page = 1])

ViewStatusCardClicked(status) ==
    /\ ui.current_queue
    /\ ViewRefreshJobs(
          [ui EXCEPT !.current_status_filter = IF @ = status THEN "" ELSE status,
                     !.current_page = 1])

ViewSearch(term) ==
    /\ ui.current_queue
    /\ term # ui.current_search
    /\ ViewRefreshJobs([ui EXCEPT !.current_page = 1, !.current_search = term])

ViewPrevPage ==
    /\ ui.current_queue
    /\ ui.current_page > 1
    /\ ViewRefreshJobs([ui EXCEPT !.current_page = @ - 1])

ViewNextPage ==
    /\ ui.current_queue
    /\ ui.current_page < MaxPages(ui.total_jobs)
    /\ ViewRefreshJobs([ui EXCEPT !.current_page = @ + 1])

\* auto_refresh_timer.timeout
ViewTimeout ==
    /\ ui.current_queue
    /\ ViewRefreshJobs(ui)

\* on_delete_clicked on a row, the question answered Yes, and
\* _delete_and_reload: delete_job, then list_jobs with the page, the page
\* size, the search term and the status filter, the sort left to the
\* defaults of list_jobs.
ViewDeleteClicked(row) ==
    /\ ui.current_queue
    /\ row \in 1..Len(ui.rows)
    /\ LET done == DeleteJob(coll, hashes, logs, ui.rows[row])
       IN  Load(ui, "_delete_and_reload", done.coll, done.hashes, done.logs,
                done.raised, "timestamp", TRUE)

\* Another client of the store removes a job: its memberships, its hash and
\* its logs.
JobRemoved(jid) ==
    /\ del.moves < MaxMoves
    /\ \E state \in States : jid \in Members(coll, state)
    /\ LET done == DeleteJob(coll, hashes, logs, jid)
       IN  coll' = done.coll /\ hashes' = done.hashes /\ logs' = done.logs
    /\ del' = [del EXCEPT !.moves = @ + 1]
    /\ UNCHANGED <<last, r, get, scan, ui, keyspace>>

InitView ==
    /\ coll \in {c \in InitColls : c["failed"] = Absent}
    /\ hashes \in InitHashes
    /\ logs = {J9, JA}
    /\ last = NoCall
    /\ del = Idle
    /\ r = "live"
    /\ get = GetIdle
    /\ scan = ScanIdle
    /\ ui = NoView
    /\ keyspace = {MetaKey(<<"x">>)}

NextView ==
    \/ ViewQueueSelected
    \/ \E new_sort_column \in SortBys : ViewHeaderClicked(new_sort_column)
    \/ ViewStatusCardClicked("wait")
    \/ \E term \in SearchTerms : ViewSearch(term)
    \/ ViewPrevPage
    \/ ViewNextPage
    \/ ViewTimeout
    \/ \E row \in 1..ViewPageSize : ViewDeleteClicked(row)
    \/ \E jid \in Ids : JobRemoved(jid)

SpecView == InitView /\ [][NextView]_vars

(***************************************************************************)
(* What the claims speak of, stated on the store itself.                   *)
(***************************************************************************)
\* The raw number of members of a state's collection: a list's length, a
\* sorted set's or a set's cardinality.
RawCount(c, state) ==
    IF c[state].t = "list" THEN Len(c[state].m)
    ELSE IF c[state].t \in {"zset", "set"} THEN Cardinality(Range(c[state].m))
    ELSE 0

\* How many times an id occurs in a state's collection.
Occurrences(c, state, jid) ==
    IF c[state].t \in Supported
    THEN Cardinality({i \in 1..Len(c[state].m) : c[state].m[i] = jid})
    ELSE 0

MemberStates(c, jid) == {s \in States : jid \in Members(c, s)}

Universe(c) == UNION {Members(c, s) : s \in States}

UpperChar(ch) == CASE ch = "a" -> "A" [] ch = "b" -> "B" [] OTHER -> ch

\* term occurs in text at offset k, letter case ignored
OccursAt(text, term, k) ==
    /\ k + Len(term) <= Len(text)
    /\ \A i \in 1..Len(term) : UpperChar(text[k + i]) = UpperChar(term[i])

OccursIn(text, term) == \E k \in 0..Len(text) : OccursAt(text, term, k)

DataOf(h, jid) == IF h[jid].data = None THEN <<>> ELSE h[jid].data

PassesSearch(h, jid, term) ==
    term = <<>> \/ OccursIn(jid, term) \/ OccursIn(DataOf(h, jid), term)

PassesStatus(c, jid, status) == status = "" \/ status \in MemberStates(c, jid)

\* The ids that survive the status and search filters.
Surviving(c, h, term, status) ==
    {jid \in Universe(c) : PassesStatus(c, jid, status) /\ PassesSearch(h, jid, term)}

Returned == last.op = "get_jobs" /\ last.ret.raised = ""

ReturnedIds == [i \in 1..Len(last.ret.jobs) |-> last.ret.jobs[i].id]

\* filtered_ids after the global sort, for the arguments of the last call
SortedIdsFor(descending) ==
    SortIds(hashes,
            FilteredIds(hashes, IdsToSearch(JobsMap(coll), last.args.status_filter),
                        last.args.search_term),
            last.args.sort_by, descending)

NoDuplicates(seq) == \A i, j \in 1..Len(seq) : seq[i] = seq[j] => i = j

Reverse(seq) == [i \in 1..Len(seq) |-> seq[Len(seq) + 1 - i]]

RECURSIVE ConcatPages(_, _, _)
ConcatPages(seq, page_size, pages) ==
    IF pages = 0 THEN <<>>
    ELSE ConcatPages(seq, page_size, pages - 1) \o PageIds(seq, pages, page_size)

(***************************************************************************)
(* C1: whenever get_jobs returns, for whatever page, page size, search     *)
(* term, status filter and sort, counts maps each of the five states to the*)
(* raw number of members of that state's collection: not deduplicated, not *)
(* filtered, not paginated.                                                *)
(***************************************************************************)
C1_CountsAreRaw ==
    Returned =>
        /\ DOMAIN last.ret.counts = States
        /\ \A s \in States : last.ret.counts[s] = RawCount(coll, s)

\* A filtered, paginated call whose counts exceed what the listing shows: a
\* list holding an id twice, an id in two collections, a filter keeping one id.
C1_Witness ==
    /\ Returned
    /\ last.args.search_term # <<>> /\ last.args.status_filter = "wait"
    /\ last.args.page = 2
    /\ last.ret.counts["wait"] = 3 /\ Cardinality(Members(coll, "wait")) = 2
    /\ last.ret.counts["completed"] = 2
    /\ last.ret.total_count = 1

(***************************************************************************)
(* C2: every job get_jobs returns has as its state the alphabetically      *)
(* sorted, comma-joined names of exactly the state collections that hold   *)
(* its id; a job in both completed and failed has "completed,failed".      *)
(***************************************************************************)
C2_StateString ==
    Returned =>
        \A i \in 1..Len(last.ret.jobs) :
            LET job == last.ret.jobs[i]
                in_states == MemberStates(coll, job.id)
            IN  /\ job.state =
                     Join(",", SelectSeq(AlphabeticalStates, LAMBDA s : s \in in_states))
                /\ in_states = {"completed", "failed"} => job.state = "completed,failed"
                /\ in_states = {"wait", "completed"} => job.state = "completed,wait"
                /\ in_states = {"wait"} => job.state = "wait"

C2_Witness ==
    /\ Returned
    /\ \E i, j \in 1..Len(last.ret.jobs) :
        /\ last.ret.jobs[i].state = "completed,failed"
        /\ MemberStates(coll, last.ret.jobs[i].id) = {"completed", "failed"}
        /\ last.ret.jobs[j].state = "completed,wait"

(***************************************************************************)
(* C3: whenever get_jobs returns, the ids of the returned page are the     *)
(* slice [(page-1)*page_size, page*page_size) of the one sorted sequence of*)
(* the filtered ids, and that sequence holds every id that survives the    *)
(* filters exactly once, so the pages together list each once.             *)
(***************************************************************************)
C3_PagesSliceOneSequence ==
    Returned =>
        LET all == SortedIdsFor(last.args.descending).ids
            first == (last.args.page - 1) * last.args.page_size
        IN  /\ Len(ReturnedIds) = IF first >= Len(all) THEN 0
                                  ELSE IF first + last.args.page_size <= Len(all)
                                       THEN last.args.page_size
                                       ELSE Len(all) - first
            /\ \A i \in 1..Len(ReturnedIds) : ReturnedIds[i] = all[first + i]
            /\ NoDuplicates(all)
            /\ Range(all) = Surviving(coll, hashes, last.args.search_term,
                                      last.args.status_filter)
            /\ ConcatPages(all, last.args.page_size, Len(all)) = all

\* The second page of a listing of three ids, one of them twice in the wait
\* list and in the completed collection as well.
C3_Witness ==
    /\ Returned
    /\ last.args.page = 2 /\ last.args.page_size = 2
    /\ Len(last.ret.jobs) = 1
    /\ last.ret.total_count = 3
    /\ \E jid \in Ids : Occurrences(coll, "wait", jid) = 2 /\ jid \in Members(coll, "completed")

(***************************************************************************)
(* C4: the total_count get_jobs returns is the number of ids that survive  *)
(* the status and search filters, for every page and page size, and a page *)
(* beyond the last one returns an empty job sequence, without error, with  *)
(* that total_count.                                                       *)
(***************************************************************************)
C4_TotalCountEveryPage ==
    last.op = "get_jobs" =>
        LET n == Cardinality(Surviving(coll, hashes, last.args.search_term,
                                       last.args.status_filter))
        IN  /\ last.ret.raised = ""
            /\ last.ret.total_count = n
            /\ (last.args.page - 1) * last.args.page_size >= n => last.ret.jobs = <<>>

(***************************************************************************)
(* C5: delete_job of an id that is in the wait and the completed           *)
(* collection (of any supported types) removes it from both and deletes    *)
(* its hash and logs keys; the list_jobs call that follows reports the id  *)
(* in no state.  As claimed, counts["wait"] and counts["completed"] are    *)
(* then each exactly 1 lower than before the delete ...                    *)
(***************************************************************************)
DeletedId == last.args.job_id

DeletedFromWaitAndCompleted ==
    /\ last.op = "delete_job"
    /\ DeletedId \in Members(last.pre, "wait")
    /\ DeletedId \in Members(last.pre, "completed")

DeletedIsGone ==
    /\ DeletedId \notin Universe(coll)
    /\ hashes[DeletedId] = NoHash
    /\ DeletedId \notin logs

C5_CountsDropByOne ==
    [][(DeletedFromWaitAndCompleted /\ last'.op = "get_jobs" /\ last'.ret.raised = "") =>
        /\ DeletedIsGone
        /\ \A i \in 1..Len(last'.ret.jobs) : last'.ret.jobs[i].id # DeletedId
        /\ \A s \in {"wait", "completed"} :
              last'.ret.counts[s] = RawCount(last.pre, s) - 1]_vars

(***************************************************************************)
(* ... C5 as amended: each is lower by the number of times the id occurred *)
(* in that collection (LREM with count 0 removes every occurrence): 1 in a *)
(* sorted set, a set or a list that held the id once.                      *)
(***************************************************************************)
C5_DeleteRemovesEverywhere ==
    [][(DeletedFromWaitAndCompleted /\ last'.op = "get_jobs" /\ last'.ret.raised = "") =>
        /\ DeletedIsGone
        /\ \A i \in 1..Len(last'.ret.jobs) : last'.ret.jobs[i].id # DeletedId
        /\ \A s \in {"wait", "completed"} :
              /\ last'.ret.counts[s] =
                    RawCount(last.pre, s) - Occurrences(last.pre, s, DeletedId)
              /\ last.pre[s].t \in {"zset", "set"} =>
                    last'.ret.counts[s] = RawCount(last.pre, s) - 1]_vars

\* delete_job has returned for an id that was twice in the wait list and in
\* the completed sorted set, and whose hash and logs keys existed; other
\* jobs remain.
C5_Witness ==
    /\ DeletedFromWaitAndCompleted
    /\ DeletedId = J9
    /\ last.pre.wait.t = "list" /\ Occurrences(last.pre, "wait", DeletedId) = 2
    /\ last.pre.completed.t = "zset"
    /\ hashes[J10] # NoHash /\ JA \in logs
    /\ Universe(coll) # {}

(***************************************************************************)
(* C6: delete_job is atomic for its caller: also when another client moves *)
(* the job between state collections while delete_job runs, once it has    *)
(* returned the id is in no state collection and its hash and logs keys    *)
(* are gone.                                                               *)
(***************************************************************************)
C6_DeleteAtomic ==
    (last.op = "delete_job" /\ del.pc = "idle") => DeletedIsGone

(***************************************************************************)
(* C7: with a non-empty search term, get_jobs keeps an id that passed the  *)
(* status filter exactly when the term, letter case ignored, occurs in the *)
(* id or in the data field of its hash; a hash without data counts as      *)
(* empty data, so such an id is kept only when the term occurs in the id.  *)
(***************************************************************************)
C7_SearchKeeps ==
    (Returned /\ last.args.search_term # <<>>) =>
        LET term == last.args.search_term
            kept == Range(SortedIdsFor(last.args.descending).ids)
        IN  /\ \A jid \in Universe(coll) :
                  jid \in kept <=>
                      /\ PassesStatus(coll, jid, last.args.status_filter)
                      /\ \/ OccursIn(jid, term)
                         \/ hashes[jid].data # None /\ OccursIn(hashes[jid].data, term)
            /\ last.ret.total_count = Cardinality(kept)
            /\ Range(ReturnedIds) \subseteq kept

\* A search that keeps one id for its data (another letter case than the
\* term's) and not for its id, and drops an id that has no data field.
C7_Witness ==
    /\ Returned /\ last.args.search_term = <<"A">>
    /\ \E i \in 1..Len(last.ret.jobs) :
          LET jid == last.ret.jobs[i].id
          IN  ~OccursIn(jid, <<"A">>) /\ hashes[jid].data = <<"a">>
    /\ \E jid \in Universe(coll) :
          /\ PassesStatus(coll, jid, last.args.status_filter)
          /\ hashes[jid].data = None
          /\ jid \notin Range(SortedIdsFor(last.args.descending).ids)

(***************************************************************************)
(* C8: with a non-empty status filter the filtered ids are ids whose state *)
(* set holds that status, and the narrowing comes before the search: the   *)
(* search reads the data field of just the ids that passed the status      *)
(* filter.  With an empty status filter no id is removed by status.        *)
(***************************************************************************)
C8_StatusBeforeSearch ==
    last.op = "get_jobs" =>
        LET status == last.args.status_filter
            term == last.args.search_term
            with_status == {jid \in Universe(coll) : status \in MemberStates(coll, jid)}
            narrowed == IF status = "" THEN Universe(coll) ELSE with_status
        IN  /\ Range(last.ret.data_reads) = IF term = <<>> THEN {} ELSE narrowed
            /\ Returned =>
                  /\ Range(ReturnedIds) \subseteq narrowed
                  /\ Range(SortedIdsFor(last.args.descending).ids) \subseteq narrowed
                  /\ last.ret.total_count =
                        Cardinality({jid \in narrowed : PassesSearch(hashes, jid, term)})

\* A search under the status filter "completed" that reads the data of
\* fewer ids than the queue holds and keeps fewer than it read.
C8_Witness ==
    /\ Returned
    /\ last.args.status_filter = "completed" /\ last.args.search_term # <<>>
    /\ Cardinality(Range(last.ret.data_reads)) = 2
    /\ Cardinality(Universe(coll)) > 2
    /\ last.ret.total_count = 1

(***************************************************************************)
(* C9: for a sort_by other than "timestamp" and any set of job ids, also   *)
(* one that mixes all-digit ids with other ids, get_jobs completes and     *)
(* returns the ids in one order in which all-digit ids are ordered by      *)
(* their integer value and the other ids by string value; descending       *)
(* reverses the order.                                                     *)
(***************************************************************************)
InIdOrder(a, b) ==
    /\ (IsDigit(a) /\ IsDigit(b)) => IntOfDigits(a) <= IntOfDigits(b)
    /\ (~IsDigit(a) /\ ~IsDigit(b)) => ~StrLess(b, a)

C9_IdSortCompletes ==
    (last.op = "get_jobs" /\ last.args.sort_by # "timestamp") =>
        /\ last.ret.raised = ""
        /\ \A i, j \in 1..Len(ReturnedIds) :
              i < j => IF last.args.descending
                       THEN InIdOrder(ReturnedIds[j], ReturnedIds[i])
                       ELSE InIdOrder(ReturnedIds[i], ReturnedIds[j])

(***************************************************************************)
(* C10: when no two filtered ids have the same parsed timestamp (an absent *)
(* or malformed timestamp parses as 0), the whole sequence get_jobs sorts  *)
(* by timestamp with descending=True is the reverse of the one it sorts    *)
(* with descending=False.                                                  *)
(***************************************************************************)
ParsedTimestamp(jid) == TsVal(hashes[jid].timestamp)

NoTimestampTies ==
    \A a, b \in Surviving(coll, hashes, last.args.search_term, last.args.status_filter) :
        ParsedTimestamp(a) = ParsedTimestamp(b) => a = b

C10_DescendingReversesAscending ==
    (last.op = "get_jobs" /\ last.args.sort_by = "timestamp" /\ NoTimestampTies) =>
        LET asc == SortedIdsFor(FALSE)
            desc == SortedIdsFor(TRUE)
        IN  /\ asc.raised = "" /\ desc.raised = ""
            /\ desc.ids = Reverse(asc.ids)
            /\ \A i, j \in 1..Len(asc.ids) :
                  i < j => ParsedTimestamp(asc.ids[i]) < ParsedTimestamp(asc.ids[j])
            /\ ReturnedIds = PageIds(IF last.args.descending THEN Reverse(asc.ids)
                                     ELSE asc.ids,
                                     last.args.page, last.args.page_size)

\* A descending timestamp sort of three ids without ties, one of them
\* without a timestamp.
C10_Witness ==
    /\ Returned /\ last.args.sort_by = "timestamp" /\ last.args.descending
    /\ NoTimestampTies
    /\ last.ret.total_count = 3
    /\ \E jid \in Range(ReturnedIds) : hashes[jid].timestamp = None
    /\ Len(ReturnedIds) = 2
    /\ ParsedTimestamp(ReturnedIds[1]) > ParsedTimestamp(ReturnedIds[2])

(***************************************************************************)
(* C11: get_jobs reads no more of the job hashes than it needs.  It reads  *)
(* whole hashes only for the ids of the page it returns, at most page_size *)
(* of them; it reads the data field only when search_term is not empty,    *)
(* and then only of ids that passed the status filter; it reads the        *)
(* timestamp field only when sort_by is "timestamp".                       *)
(***************************************************************************)
C11_MinimalReads ==
    last.op = "get_jobs" =>
        /\ Len(last.ret.page_reads) <= last.args.page_size
        /\ Returned => last.ret.page_reads = ReturnedIds
        /\ \A jid \in Range(last.ret.page_reads) : jid \in Universe(coll)
        /\ last.args.search_term = <<>> => last.ret.data_reads = <<>>
        /\ \A jid \in Range(last.ret.data_reads) :
              /\ jid \in Universe(coll)
              /\ PassesStatus(coll, jid, last.args.status_filter)
        /\ last.args.sort_by # "timestamp" => last.ret.ts_reads = <<>>

\* A search under a status filter, sorted by timestamp: the data field is
\* read of the ids with that status and not of the others, the timestamp
\* field of the fewer ids matching the search, and whole hashes of a full
\* page.
C11_Witness ==
    /\ Returned
    /\ last.args.search_term # <<>> /\ last.args.status_filter # ""
    /\ last.args.sort_by = "timestamp"
    /\ last.ret.data_reads # <<>>
    /\ Cardinality(Range(last.ret.data_reads)) < Cardinality(Universe(coll))
    /\ Len(last.ret.ts_reads) < Len(last.ret.data_reads)
    /\ last.ret.ts_reads # <<>>
    /\ Len(last.ret.page_reads) = last.args.page_size

(***************************************************************************)
(* C12: a state key that is absent or holds a value that is neither a      *)
(* list, a sorted set nor a set counts 0 in counts and gives no id to the  *)
(* merged jobs, and get_jobs completes without error from the other        *)
(* collections.                                                            *)
(***************************************************************************)
C12_UnreadableKeyIsEmpty ==
    last.op = "get_jobs" =>
        \A s \in States :
            coll[s].t \notin Supported =>
                /\ last.ret.raised = ""
                /\ last.ret.counts[s] = 0
                /\ last.ret.total_count =
                      Cardinality(Surviving(coll, hashes, last.args.search_term,
                                            last.args.status_filter))
                /\ \A i \in 1..Len(last.ret.jobs) :
                      last.ret.jobs[i].state =
                          Join(",", SelectSeq(AlphabeticalStates,
                                 LAMBDA x : x # s /\ last.ret.jobs[i].id \in Members(coll, x)))

C13_OrphanReached ==
    /\ last.op = "get_job_detail"
    /\ hashes[last.args.job_id].data \notin {None, <<>>}
    /\ MemberStates(coll, last.args.job_id) = {}
    /\ last.ret.detail.state = "" /\ last.ret.detail.data_raw # <<>>

(***************************************************************************)
(* C14: delete_job raises no error when the id is absent from some or all  *)
(* of the state collections or has no hash, and it is idempotent: a second *)
(* delete_job of the same id leaves the store as the first left it.        *)
(***************************************************************************)
C14_DeleteIdempotent ==
    (last.op = "delete_job" /\ r = "live") =>
        LET again == DeleteJob(coll, hashes, logs, last.args.job_id)
        IN  /\ last.ret.raised = ""
            /\ again.raised = ""
            /\ again.coll = coll /\ again.hashes = hashes /\ again.logs = logs

\* A delete that changed the store, of an id that was in one state
\* collection more than once, in another of a different type, and in a
\* third not at all.
C14_Witness ==
    /\ last.op = "delete_job" /\ last.ret.raised = ""
    /\ last.pre # coll
    /\ Occurrences(last.pre, "wait", last.args.job_id) = 2
    /\ \E s \in States :
          /\ last.pre[s].t \in Supported \ {last.pre["wait"].t}
          /\ last.args.job_id \in Members(last.pre, s)
    /\ \E s \in States :
          /\ last.pre[s].t \in Supported
          /\ last.args.job_id \notin Members(last.pre, s)

\* A delete of an id that has no hash and is in no state collection.
C14_AbsentReached ==
    /\ last.op = "delete_job" /\ last.ret.raised = ""
    /\ last.args.job_id \notin Universe(last.pre)
    /\ last.args.job_id \notin logs
    /\ last.pre = coll

(***************************************************************************)
(* C20: on a store that does not change, for every job id in the merged    *)
(* jobs of the queue, the state get_job_detail returns (one membership     *)
(* probe per state key) is the state get_jobs reports for that id (bulk    *)
(* read and merge), whatever the supported type of each state collection.  *)
(***************************************************************************)
C20_DetailStateIsListedState ==
    [][(last'.op = "get_job_detail" /\ r' = "live" /\ coll' = coll) =>
          LET job_id == last'.args.job_id
              state == last'.ret.detail.state
          IN  /\ job_id \in Universe(coll) =>
                    /\ state = StateStr(JobsMap(coll), job_id)
                    /\ state # ""
              /\ (last.op = "get_jobs" /\ last.ret.raised = "") =>
                    \A i \in 1..Len(last.ret.jobs) :
                        last.ret.jobs[i].id = job_id =>
                            last.ret.jobs[i].state = state]_vars

\* The detail of a job that is in a list, behind other ids, and in a
\* collection of another type.
C20_Witness ==
    /\ last.op = "get_job_detail"
    /\ LET job_id == last.args.job_id
       IN  /\ coll["wait"].t = "list"
           /\ job_id \in Members(coll, "wait") /\ Head(coll["wait"].m) # job_id
           /\ coll["completed"].t \in {"zset", "set"}
           /\ job_id \in Members(coll, "completed")
           /\ last.ret.detail.state = "completed,wait"

(***************************************************************************)
(* C15: while the repository has no handle (before the first connect, or   *)
(* after disconnect, which may be called again and again), get_jobs        *)
(* returns no jobs and total_count 0, get_queues returns an empty          *)
(* sequence, get_job_detail and get_redis_info return an empty mapping,    *)
(* none raises and none sends a command to the store.                      *)
(***************************************************************************)
C15_NoHandleNoCommands ==
    r = "None" =>
        /\ scan.pc = "idle"
        /\ last.op = "get_jobs" =>
              /\ last.ret.raised = ""
              /\ last.ret.jobs = <<>> /\ last.ret.total_count = 0
              /\ last.ret.key_reads = <<>> /\ last.ret.data_reads = <<>>
              /\ last.ret.ts_reads = <<>> /\ last.ret.page_reads = <<>>
        /\ last.op = "get_queues" =>
              /\ last.ret.raised = ""
              /\ last.ret.queues = <<>> /\ last.ret.commands = <<>>
        /\ last.op = "get_job_detail" =>
              /\ last.ret.raised = ""
              /\ DOMAIN last.ret.detail = {} /\ last.ret.commands = <<>>
        /\ last.op = "get_redis_info" =>
              /\ last.ret.raised = ""
              /\ DOMAIN last.ret.info = {} /\ last.ret.commands = <<>>
        /\ last.op = "disconnect" =>
              /\ last.ret.raised = "" /\ last.ret.commands = <<>>

\* get_jobs after a disconnect, on a store that holds jobs: job 9 was
\* deleted over an earlier handle.
C15_Witness ==
    /\ r = "None" /\ last.op = "get_jobs"
    /\ J9 \notin logs /\ Universe(coll) # {}
    /\ last.ret.jobs = <<>> /\ last.ret.total_count = 0

\* A disconnect without a handle.
C15_DisconnectAgainReached ==
    /\ last.op = "disconnect" /\ last.args.had = "None" /\ r = "None"
    /\ J9 \notin logs

(***************************************************************************)
(* C18: get_queues returns, sorted ascending and without duplicates,       *)
(* exactly the names q for which the key <prefix>:q:meta exists, q being   *)
(* the second colon-delimited segment of the key, however many SCAN calls  *)
(* the keyspace takes and whatever other keys exist under the prefix.      *)
(***************************************************************************)
SecondSegments ==
    {Split(key, <<>>, <<>>)[2] : key \in {k \in keyspace : Len(Split(k, <<>>, <<>>)) >= 2}}

QueuesWithMetaKey == {q \in SecondSegments : MetaKey(q) \in keyspace}

C18_QueuesAreMetaKeys ==
    (last.op = "get_queues" /\ r = "live") =>
        /\ last.ret.raised = ""
        /\ \A i, j \in 1..Len(last.ret.queues) :
              i < j => StrLess(last.ret.queues[i], last.ret.queues[j])
        /\ Range(last.ret.queues) = QueuesWithMetaKey

\* The same when every key under the prefix that ends in ":meta" has three
\* segments.
C18_HoldsForThreeSegments ==
    (last.op = "get_queues" /\ r = "live"
       /\ \A key \in keyspace : MatchesPattern(key) => Len(Split(key, <<>>, <<>>)) = 3) =>
        /\ last.ret.raised = ""
        /\ \A i, j \in 1..Len(last.ret.queues) :
              i < j => StrLess(last.ret.queues[i], last.ret.queues[j])
        /\ Range(last.ret.queues) = QueuesWithMetaKey

(***************************************************************************)
(* C19: get_jobs (no status filter, no search term) neither drops nor      *)
(* misreports a job that another client moves between state collections    *)
(* during the call: an id that is in some state collection at every        *)
(* instant of the call is among the merged jobs and counted in             *)
(* total_count, and an id that is in exactly one collection at every       *)
(* instant is not reported with two states.  A move takes an id out of one *)
(* collection and puts it into another in one step, so every id of the     *)
(* store at the call is in some collection throughout, and an id that      *)
(* occurs once in the store occurs once throughout.                        *)
(***************************************************************************)
OccurrencesInStore(c, jid) ==
    Occurrences(c, "wait", jid) + Occurrences(c, "active", jid)
    + Occurrences(c, "delayed", jid) + Occurrences(c, "completed", jid)
    + Occurrences(c, "failed", jid)

C19_MovedJobsAreListedOnce ==
    (last.op = "get_jobs" /\ last.ret.raised = "" /\ get.pc = "idle") =>
        /\ \A jid \in Universe(last.pre) : HasKey(get.map, jid)
        /\ last.ret.total_count >= Cardinality(Universe(last.pre))
        /\ \A jid \in Universe(last.pre) :
              (OccurrencesInStore(last.pre, jid) = 1 /\ HasKey(get.map, jid)) =>
                  Cardinality(StatesOf(get.map, jid)) <= 1

\* The two failures apart: an id of the store that the merged reads miss,
\* and an id that occurs once and is merged with two states.
C19_DropReached ==
    /\ last.op = "get_jobs" /\ last.ret.raised = "" /\ get.pc = "idle"
    /\ \E jid \in Universe(last.pre) : ~HasKey(get.map, jid)
    /\ last.ret.total_count < Cardinality(Universe(coll))

C19_TwoStatesReached ==
    /\ last.op = "get_jobs" /\ last.ret.raised = "" /\ get.pc = "idle"
    /\ \E i \in 1..Len(last.ret.jobs) :
          /\ OccurrencesInStore(last.pre, last.ret.jobs[i].id) = 1
          /\ OccurrencesInStore(coll, last.ret.jobs[i].id) = 1
          /\ last.ret.jobs[i].state = "active,wait"

(***************************************************************************)
(* C16: a worker superseded by a newer one never has its result or error   *)
(* applied to the window: on_jobs_loaded, on_job_detail_loaded,            *)
(* on_connect_finished and on_worker_error are only ever called with the   *)
(* outcome of the most recently started worker.                            *)
(***************************************************************************)
C16_OnlyLatestOutcomeApplied ==
    ui.applied.slot # "" => ui.applied.worker = ui.applied.started

\* The stale call reached without any delivery left queued across a
\* disconnect: the earlier worker's run() had returned when the newer
\* worker was started.
C16_StaleAfterReturnReached ==
    /\ ui.applied.slot = "on_jobs_loaded"
    /\ ui.applied.worker < ui.applied.started
    /\ ui.zombies = {} /\ \A w \in 1..Len(ui.workers) : ui.workers[w].error = "on_worker_error"

(***************************************************************************)
(* C17: the window serializes the requests on the one connection: at most  *)
(* one worker at a time is executing an operation of the repository; an    *)
(* auto-refresh tick starts no worker while another is running, and an     *)
(* operation the user starts does not run beside an earlier worker that is *)
(* still running.                                                          *)
(***************************************************************************)
Executing == {w \in 1..Len(ui.workers) : ui.workers[w].status = "running"}

C17_OneWorkerExecuting == Cardinality(Executing) <= 1

(***************************************************************************)
(* C24: the repository holds a handle only if the most recent connect      *)
(* passed its ping and no disconnect followed: a connect whose ping raises *)
(* raises to the caller and leaves no handle, so get_jobs, get_queues,     *)
(* get_job_detail and delete_job called after it behave as without a       *)
(* connection and send no command on the failed handle.                    *)
(***************************************************************************)
C24_FailedConnectLeavesNoHandle ==
    /\ (last.op = "connect" /\ ~last.args.answers) =>
          /\ last.ret.raised # ""
          /\ r = "None"
    /\ r # "live" =>
          /\ last.op = "get_jobs" => last.ret = NoJobs
          /\ last.op = "get_job_detail" => last.ret = NoDetail
          /\ last.op = "get_queues" =>
                last.ret.raised = "" /\ last.ret.queues = <<>> /\ last.ret.commands = <<>>
          /\ last.op = "delete_job" => last.ret.raised = "" /\ coll = last.pre

\* get_jobs on the handle of a connect whose ping raised: the call raises.
C24_CallOnFailedHandleReached ==
    /\ r = "dead" /\ last.op = "get_jobs"
    /\ last.ret.raised = "ConnectionError"

(***************************************************************************)
(* C23: delete_job(queue, id), for every string id, changes nothing but    *)
(* the job of that id: every other job id is a member of exactly the state *)
(* collections it was a member of before, and every other job's hash and   *)
(* logs are as they were.                                                  *)
(***************************************************************************)
DeleteReturns == last.op = "none" /\ last'.op = "delete_job"

OthersKept(job_id) ==
    \A jid \in Ids \ {job_id} :
        /\ \A state \in States :
              (jid \in Members(coll', state)) = (jid \in Members(coll, state))
        /\ hashes'[jid] = hashes[jid]
        /\ (jid \in logs') = (jid \in logs)

C23_DeleteTouchesOnlyTarget ==
    [][DeleteReturns => OthersKept(last'.args.job_id)]_vars

\* The same for the ids that spell no other key of the queue.
C23_HoldsForJobIds ==
    [][(DeleteReturns /\ last'.args.job_id \in Ids) => OthersKept(last'.args.job_id)]_vars

\* delete_job(queue, "wait") has deleted the wait collection and its
\* members; delete_job(queue, "9:logs") has deleted the logs of job 9.
C23_StateKeyDeletedReached ==
    /\ last.op = "delete_job" /\ last.args.job_id = Suffix("wait")
    /\ last.ret.raised = ""
    /\ Members(last.pre, "wait") # {} /\ coll["wait"] = Absent

C23_LogsOfOtherJobDeletedReached ==
    /\ last.op = "delete_job" /\ last.args.job_id = J9 \o LogsSuffix
    /\ J9 \notin logs /\ hashes[J9] # NoHash

(***************************************************************************)
(* C21: the page shown after the user deletes a job is computed with the   *)
(* parameters of the view: _delete_and_reload calls list_jobs with the     *)
(* current page, page size, search term and status filter and with the     *)
(* current sort column and direction, so the rows shown after a delete are *)
(* the rows a plain refresh would show, in the same order.                 *)
(***************************************************************************)
RowsOfRefresh ==
    LET ret == GetJobs(coll, hashes, ui.current_page, ViewPageSize,
                       ui.current_search, ui.current_status_filter,
                       ui.current_sort_column, ui.current_sort_descending)
    IN  [i \in 1..Len(ret.jobs) |-> ret.jobs[i].id]

C21_ReloadKeepsTheSort ==
    (ui.func = "_delete_and_reload" /\ last.ret.raised = "") =>
        /\ last.args.page = ui.current_page
        /\ last.args.search_term = ui.current_search
        /\ last.args.status_filter = ui.current_status_filter
        /\ last.args.sort_by = ui.current_sort_column
        /\ last.args.descending = ui.current_sort_descending
        /\ ui.rows = RowsOfRefresh

\* After a delete the rows are in another order than a refresh gives: the
\* view sorts by id, the reload sorted by timestamp.
C21_OtherOrderReached ==
    /\ ui.func = "_delete_and_reload" /\ last.ret.raised = ""
    /\ ui.current_sort_column = "id" /\ last.args.sort_by = "timestamp"
    /\ Len(ui.rows) = 2
    /\ Range(ui.rows) = Range(RowsOfRefresh) /\ ui.rows # RowsOfRefresh

\* The same with the view sorted by timestamp, ascending.
C21_OtherDirectionReached ==
    /\ ui.func = "_delete_and_reload" /\ last.ret.raised = ""
    /\ ui.current_sort_column = "timestamp" /\ ~ui.current_sort_descending
    /\ Len(ui.rows) = 2
    /\ Range(ui.rows) = Range(RowsOfRefresh) /\ ui.rows # RowsOfRefresh

(***************************************************************************)
(* C22: after every on_jobs_loaded the view has                            *)
(* 1 <= current_page <= total_pages, total_pages being                     *)
(* max(1, ceil(total_jobs / page_size)), whatever next and previous page   *)
(* clicks, searches, status filters, sort changes, deletes and             *)
(* auto-refreshes came before and whatever jobs left the store between the *)
(* loads.                                                                  *)
(***************************************************************************)
C22_PageWithinPages ==
    (ui.func # "" /\ last.ret.raised = "") =>
        /\ 1 <= ui.current_page
        /\ ui.current_page <= MaxPages(ui.total_jobs)

\* The two ways there: the user deleted the only job of the last page; a
\* job left the store and the timer reloaded the last page.
C22_AfterDeleteReached ==
    /\ ui.func = "_delete_and_reload" /\ last.ret.raised = ""
    /\ ui.current_page = 2 /\ ui.total_jobs = 2 /\ ui.rows = <<>>

C22_AfterRemovalReached ==
    /\ ui.func = "list_jobs" /\ last.ret.raised = ""
    /\ ui.current_page = 2 /\ ui.total_jobs = 2 /\ ui.rows = <<>>

====
